---------------------------- MODULE Spec2Model ----------------------------
(* A model of src/src/drawRoute.py: the instance reader, the cost table,  *)
(* the result reader and the module-level script that aggregates the      *)
(* route cost and renders nodes and edges.                                *)
EXTENDS Integers, Sequences, FiniteSets, TLC

(**************************************************************************)
(* Bounds of the model.                                                   *)
(**************************************************************************)
\* the supplier and consumer counts of a header are in 0..MaxCount
MaxCount == 2
\* node ids (instance rows, edge endpoints) and route owners are in 1..MaxId
MaxId == 3
\* coordinates of instance rows are in 0..MaxCoord
MaxCoord == 1
\* a result file has at most MaxLines lines
MaxLines == 3
\* the counts of the header of a whole run are in 0..RunCount
RunCount == 1
\* the integer tokens of a result file read on its own are in 1..MaxTok
MaxTok == 2

(**************************************************************************)
(* Python floats: IEEE-754 binary64, round to nearest even.  A finite     *)
(* positive float is [hi, lo, ex] with value (hi*2^27 + lo) * 2^(ex-52),  *)
(* 2^52 <= hi*2^27 + lo < 2^53; 0.0 is [hi |-> 0, lo |-> 0, ex |-> 0].     *)
(* Two limbs keep every intermediate value inside TLC's 32-bit integers.  *)
(**************************************************************************)
Limb == 2^27        \* the base of the two-limb mantissa
TopBit == 2^25      \* a normalised mantissa has TopBit <= hi < 2*TopBit

FZero == [hi |-> 0, lo |-> 0, ex |-> 0]

\* two-limb naturals <<hi, lo>>, 0 <= lo < Limb
BigNorm(hi, lo) == <<hi + (lo \div Limb), lo % Limb>>
BigAdd(a, b) == BigNorm(a[1] + b[1], a[2] + b[2])
BigSub(a, b) == IF a[2] >= b[2] THEN <<a[1] - b[1], a[2] - b[2]>>
                ELSE <<a[1] - b[1] - 1, a[2] + Limb - b[2]>>
BigGeq(a, b) == a[1] > b[1] \/ (a[1] = b[1] /\ a[2] >= b[2])
BigMul(a, k) == BigNorm(a[1] * k, a[2] * k)      \* k <= 8
\* a shifted right by d bits, the bits shifted out or-ed into the last bit
BigShrSticky(a, d) ==
    IF d = 0 THEN a
    ELSE IF d < 27 THEN
        LET p    == 2^d
            lo   == (a[2] \div p) + (a[1] % p) * (Limb \div p)
            lost == a[2] % p
        IN  <<a[1] \div p, IF lost # 0 /\ lo % 2 = 0 THEN lo + 1 ELSE lo>>
    ELSE IF d < 58 THEN
        LET p    == 2^(d - 27)
            lo   == a[1] \div p
            lost == (a[1] % p) # 0 \/ a[2] # 0
        IN  <<0, IF lost /\ lo % 2 = 0 THEN lo + 1 ELSE lo>>
    ELSE <<0, IF a[1] # 0 \/ a[2] # 0 THEN 1 ELSE 0>>

\* the float of mantissa m (53 or 54 bits after a carry) and exponent ex
FPack(m, ex) == IF m[1] >= 2 * TopBit
                THEN [hi |-> m[1] \div 2, lo |-> (m[2] \div 2) + (m[1] % 2) * (Limb \div 2), ex |-> ex + 1]
                ELSE [hi |-> m[1], lo |-> m[2], ex |-> ex]

\* x + y on floats (float.__add__), both >= 0
FAdd(x, y) ==
    IF x = FZero THEN y
    ELSE IF y = FZero THEN x
    ELSE LET a  == IF x.ex >= y.ex THEN x ELSE y
             b  == IF x.ex >= y.ex THEN y ELSE x
             s0 == BigAdd(BigMul(<<a.hi, a.lo>>, 8),
                          BigShrSticky(BigMul(<<b.hi, b.lo>>, 8), a.ex - b.ex))
             cy == s0[1] >= 16 * TopBit
             s  == IF cy THEN BigShrSticky(s0, 1) ELSE s0
             ex == IF cy THEN a.ex + 1 ELSE a.ex
             g  == s[2] % 8
             q  == <<s[1] \div 8, (s[2] \div 8) + (s[1] % 8) * (Limb \div 8)>>
             up == g > 4 \/ (g = 4 /\ q[2] % 2 = 1)
         IN  FPack(IF up THEN BigAdd(q, <<0, 1>>) ELSE q, ex)

\* the largest e with 4^e <= n, n >= 1
RECURSIVE Log4(_)
Log4(n) == IF n < 4 THEN 0 ELSE 1 + Log4(n \div 4)

\* binary digit-by-digit square root of n * 4^(52-e): after step k, root is
\* the integer square root of the leading k bit pairs and rem the remainder
RECURSIVE SqrtIter(_, _, _, _, _)
SqrtIter(n, e, k, root, rem) ==
    IF k > 53 THEN <<root, rem>>
    ELSE LET pair == IF k <= e + 1 THEN (n \div (4^(e + 1 - k))) % 4 ELSE 0
             r4   == BigAdd(BigMul(rem, 4), <<0, pair>>)
             t    == BigAdd(BigMul(root, 4), <<0, 1>>)
             r2   == BigMul(root, 2)
         IN  IF BigGeq(r4, t)
             THEN SqrtIter(n, e, k + 1, BigAdd(r2, <<0, 1>>), BigSub(r4, t))
             ELSE SqrtIter(n, e, k + 1, r2, r4)

\* n ** 0.5 for an int n >= 0: the float nearest to the square root
Pow05(n) ==
    IF n = 0 THEN FZero
    ELSE LET e  == Log4(n)
             rr == SqrtIter(n, e, 1, <<0, 0>>, <<0, 0>>)
             up == ~BigGeq(rr[1], rr[2])        \* rem > root: above the midpoint
         IN  FPack(IF up THEN BigAdd(rr[1], <<0, 1>>) ELSE rr[1], e)


\* every n ** 0.5 the bounds can ask for, computed once
MaxSq == 2 * MaxCoord * MaxCoord
Pow05Table == [n \in 0..MaxSq |-> Pow05(n)]

(**************************************************************************)
(* Python values.                                                         *)
(**************************************************************************)
\* range(a, b) as the sequence of its elements
PyRange(a, b) == [k \in 1..(IF b > a THEN b - a ELSE 0) |-> a + k - 1]
\* s[n:]
SliceFrom(s, n) == SubSeq(s, n + 1, Len(s))
Elems(s) == {s[k] : k \in DOMAIN s}
\* d[k] = v on a dict kept as a function (positions, costs)
DictSet(d, k, v) == [x \in DOMAIN d \cup {k} |-> IF x = k THEN v ELSE d[x]]
EmptyDict == [x \in {} |-> 0]

(**************************************************************************)
(* readInstance, lines 8-29.                                              *)
(**************************************************************************)
nSuppliersOf(inputData) == inputData[1][1]
nConsumersOf(inputData) == inputData[1][2]
\* line 16 with range(0, ...), ids counted from zero
SuppliersFromZero(nS) == PyRange(0, nS + 1)
\* line 16
SuppliersOf(nS) == PyRange(1, nS + 1)
\* line 17 with the range started one too low
ConsumersFromLastSupplier(nS, nC) == PyRange(nS, nS + nC + 1)
\* line 17
ConsumersOf(nS, nC) == PyRange(nS + 1, nS + nC + 1)
\* line 18
CrossDockOf(nS, nC) == nS + nC + 1
\* line 20: inputData = inputData[2:]
NodeRowsRead(inputData) == SliceFrom(inputData, 2)
\* lines 22-26
RECURSIVE ReadRows(_, _)
ReadRows(rows, pos) ==
    IF rows = <<>> THEN pos
    ELSE ReadRows(Tail(rows), DictSet(pos, Head(rows)[1], <<Head(rows)[2], Head(rows)[3]>>))

(**************************************************************************)
(* The cost table, lines 56-59.                                           *)
(**************************************************************************)
Sq(d) == d * d
\* line 59 with xj typed for yj
CostOfMistyped(pi, pj) == Pow05Table[Sq(pi[1] - pj[1]) + Sq(pi[2] - pj[1])]
\* line 59
CostOf(pi, pj) == Pow05Table[Sq(pi[1] - pj[1]) + Sq(pi[2] - pj[2])]
CostTable(pos) == [ij \in (DOMAIN pos) \X (DOMAIN pos) |-> CostOf(pos[ij[1]], pos[ij[2]])]

(**************************************************************************)
(* Instance files: the matrix read_csv returns, row 0 the header          *)
(* <<nSuppliers, nConsumers>> and then the node rows <<nodeId, x, y>>.    *)
(* The files enumerated list each node at most once, by increasing id.    *)
(**************************************************************************)
SetMin(S) == CHOOSE m \in S : \A x \in S : m <= x
RECURSIVE RowsOf(_, _)
RowsOf(S, at) ==
    IF S = {} THEN <<>>
    ELSE LET m == SetMin(S) IN <<<<m, at[m][1], at[m][2]>>>> \o RowsOf(S \ {m}, at)
Headers == (0..MaxCount) \X (0..MaxCount)
Points == (0..MaxCoord) \X (0..MaxCoord)
\* the node rows of a file that lists nodes among from..MaxId
RECURSIVE NodeRows(_)
NodeRows(from) ==
    IF from > MaxId THEN {<<>>}
    ELSE LET rest == NodeRows(from + 1)
         IN  rest \cup {<<<<from, p[1], p[2]>>>> \o r : p \in Points, r \in rest}
\* every placement of every set of nodes
InstanceFiles == {<<h>> \o r : h \in Headers, r \in NodeRows(1)}

(**************************************************************************)
(* readResult, lines 33-46.  A line is the sequence of its whitespace-    *)
(* separated tokens (line.split()); a token is an integer literal or not. *)
(**************************************************************************)
IntTok(n) == [isInt |-> TRUE, val |-> n]
WordTok == [isInt |-> FALSE, val |-> 0]
\* line 41 binds three names: a, b, c
Arity == 3
\* line 41: [int(x) for x in words] unpacked into a, b, c succeeds
Unpacks(words) == Len(words) = Arity /\ \A k \in DOMAIN words : words[k].isInt
\* line 40 with the test len(words) > 2
IsEdgeLineOver2(words) == Len(words) > 2
\* line 40: the lines that are edges
IsEdgeLine(words) == Len(words) > 1

\* suppliersRoute is a dict, which keeps its keys in insertion order: a
\* sequence of [owner, edges] with distinct owners
OwnerAt(d, a) == CHOOSE k \in DOMAIN d : d[k].owner = a
HasOwner(d, a) == \E k \in DOMAIN d : d[k].owner = a
\* line 42: suppliersRoute.get(a, [])
RouteGet(d, a) == IF HasOwner(d, a) THEN d[OwnerAt(d, a)].edges ELSE <<>>
\* line 44 as a delete and re-insert, which moves the owner to the end
RoutePutLast(d, a, route) ==
    Append(SelectSeq(d, LAMBDA r : r.owner # a), [owner |-> a, edges |-> route])
\* line 44: suppliersRoute[a] = route
RoutePut(d, a, route) ==
    IF HasOwner(d, a) THEN [d EXCEPT ![OwnerAt(d, a)].edges = route]
    ELSE Append(d, [owner |-> a, edges |-> route])
\* lines 41-44 on a line that unpacks
AddEdgeLine(d, words) ==
    RoutePut(d, words[1].val, Append(RouteGet(d, words[1].val), <<words[2].val, words[3].val>>))

RECURSIVE SeqsUpTo(_, _)
SeqsUpTo(S, n) ==
    IF n = 0 THEN {<<>>}
    ELSE LET shorter == SeqsUpTo(S, n - 1)
         IN  shorter \cup {Append(q, x) : q \in {r \in shorter : Len(r) = n - 1}, x \in S}
\* every line of at most Arity tokens, and every line of Arity + 1 integers
ResultLines ==
    SeqsUpTo({IntTok(n) : n \in 1..MaxTok} \cup {WordTok}, Arity)
        \cup {q \in SeqsUpTo({IntTok(n) : n \in 1..MaxTok}, Arity + 1) : Len(q) = Arity + 1}

(**************************************************************************)
(* The script, lines 63-97.                                               *)
(**************************************************************************)
\* line 79; colors, line 78, is ['k', 'k']
styles == <<"solid", "dashed">>
Drawing(kind, style, ns, es) == [kind |-> kind, style |-> style, nodes |-> ns, edges |-> es]

\* lines 82-84 with totalCost = costs[a, b] for totalCost += costs[a, b]
RECURSIVE AddCostsAssigned(_, _, _)
AddCostsAssigned(total, edges, cost) ==
    IF edges = <<>> THEN [total |-> total, ok |-> TRUE]
    ELSE IF Head(edges) \notin DOMAIN cost THEN [total |-> total, ok |-> FALSE]
    ELSE AddCostsAssigned(cost[Head(edges)], Tail(edges), cost)
\* lines 82-84 from the total so far: the total, and whether every
\* costs[a, b] was there (the first missing one raises KeyError)
RECURSIVE AddCosts(_, _, _)
AddCosts(total, edges, cost) ==
    IF edges = <<>> THEN [total |-> total, ok |-> TRUE]
    ELSE IF Head(edges) \notin DOMAIN cost THEN [total |-> total, ok |-> FALSE]
    ELSE AddCosts(FAdd(total, cost[Head(edges)]), Tail(edges), cost)
\* line 86: graph.add_edges_from(edges)
AddEdgesFrom(g, edges) ==
    [nodes |-> g.nodes \cup {e[1] : e \in Elems(edges)} \cup {e[2] : e \in Elems(edges)},
     edges |-> g.edges \cup Elems(edges)]
\* line 88: draw_networkx_edges takes edgelist; edges_list is no parameter
\* of it and is swallowed by its **kwds, so it draws every edge of the graph
EdgesDrawn(g, edges) == g.edges

\* The whole script is run on the instance files that list the nodes lo..hi,
\* from node 0 or 1 up to the last consumer or the cross-dock, node k placed
\* at the k-th point of the grid, and on result files of edge lines and of
\* summary lines of one token or of two ("TotalObjective 42").
LastId == 2 * RunCount + 1
GridSite == [k \in 0..LastId |-> <<(k \div (MaxCoord + 1)) % (MaxCoord + 1), k % (MaxCoord + 1)>>]
RunInstanceFiles ==
    UNION {{<<h>> \o RowsOf(lo..hi, GridSite) :
                lo \in 0..1, hi \in (h[1] + h[2])..CrossDockOf(h[1], h[2])} :
           h \in (0..RunCount) \X (0..RunCount)}
RunResultLines ==
    {<<IntTok(a), IntTok(b), IntTok(c)>> : a \in 1..MaxId, b \in 1..MaxId, c \in 1..MaxId}
        \cup {<<WordTok>>, <<WordTok, IntTok(1)>>}

VARIABLES
    pc,             \* the statement the script is at
    err,            \* the exception that ended the run, "" if none
    instanceFile,   \* the matrix read at line 11 (history)
    suppliers, consumers, cd, positions,    \* line 54
    costs,          \* line 56
    fileLines,      \* the lines of the result file read so far (history)
    suppliersRoute, \* lines 35, 61
    nodes,          \* line 63
    graph,          \* line 68: the DiGraph, [nodes, edges]
    canvas,         \* what has been drawn, in order: [kind, style, nodes, edges]
    i,              \* line 80
    totalCost,      \* line 76
    printedTotal    \* what line 91 has printed: <<>> or <<total>>

vars == <<pc, err, instanceFile, suppliers, consumers, cd, positions, costs,
          fileLines, suppliersRoute, nodes, graph, canvas, i, totalCost, printedTotal>>
instanceVars == <<instanceFile, suppliers, consumers, cd, positions>>
resultVars == <<fileLines, suppliersRoute>>
drawVars == <<nodes, graph, canvas, i, totalCost, printedTotal>>

Start(at) ==
    /\ pc = at
    /\ err = ""
    /\ instanceFile = <<>>
    /\ suppliers = <<>>
    /\ consumers = <<>>
    /\ cd = 0
    /\ positions = EmptyDict
    /\ costs = EmptyDict
    /\ fileLines = <<>>
    /\ suppliersRoute = <<>>
    /\ nodes = <<>>
    /\ graph = [nodes |-> {}, edges |-> {}]
    /\ canvas = <<>>
    /\ i = 0
    /\ totalCost = FZero
    /\ printedTotal = <<>>

Init == Start("readInstance")

\* line 54: readInstance(filename) on one of `files`
ReadInstance(files) ==
    /\ pc = "readInstance"
    /\ \E inputData \in files :
        LET nS == nSuppliersOf(inputData)
            nC == nConsumersOf(inputData)
        IN  /\ instanceFile' = inputData
            /\ suppliers' = SuppliersOf(nS)
            /\ consumers' = ConsumersOf(nS, nC)
            /\ cd' = CrossDockOf(nS, nC)
            /\ positions' = ReadRows(NodeRowsRead(inputData), EmptyDict)
    /\ pc' = "costs"
    /\ UNCHANGED <<err, costs, resultVars, drawVars>>

\* lines 56-59
BuildCosts ==
    /\ pc = "costs"
    /\ costs' = CostTable(positions)
    /\ pc' = "readResult"
    /\ UNCHANGED <<err, instanceVars, resultVars, drawVars>>

\* lines 38-44: one turn of the loop over the file, on one of `lines`
ReadLine(lines) ==
    /\ pc = "readResult"
    /\ Len(fileLines) < MaxLines
    /\ \E words \in lines :
        /\ fileLines' = Append(fileLines, words)
        /\ IF ~IsEdgeLine(words)
           THEN UNCHANGED <<pc, err, suppliersRoute>>
           ELSE IF Unpacks(words)
           THEN /\ suppliersRoute' = AddEdgeLine(suppliersRoute, words)
                /\ UNCHANGED <<pc, err>>
           ELSE /\ pc' = "failed"
                /\ err' = "ValueError"
                /\ UNCHANGED suppliersRoute
    /\ UNCHANGED <<instanceVars, costs, drawVars>>

\* lines 38, 46, 61: the file is exhausted and readResult returns
ReturnRoute ==
    /\ pc = "readResult"
    /\ pc' = "graph"
    /\ UNCHANGED <<err, instanceVars, costs, resultVars, drawVars>>

\* lines 63-69
BuildGraph ==
    /\ pc = "graph"
    /\ nodes' = suppliers \o consumers \o <<cd>>
    /\ graph' = [nodes |-> Elems(nodes'), edges |-> {}]
    /\ pc' = "labels"
    /\ UNCHANGED <<err, instanceVars, costs, resultVars, canvas, i, totalCost, printedTotal>>

\* line 71: draw_networkx_labels looks up pos[n] for every labelled node
DrawLabels ==
    /\ pc = "labels"
    /\ IF Elems(nodes) \subseteq DOMAIN positions
       THEN /\ canvas' = Append(canvas, Drawing("labels", "", Elems(nodes), {}))
            /\ pc' = "suppliers"
            /\ err' = err
       ELSE /\ pc' = "failed"
            /\ err' = "KeyError"
            /\ canvas' = canvas
    /\ UNCHANGED <<instanceVars, costs, resultVars, nodes, graph, i, totalCost, printedTotal>>

\* lines 72-74: the nodes of one role (their positions were found at line 71)
DrawNodes(at, color, nodelist, next) ==
    /\ pc = at
    /\ canvas' = Append(canvas, Drawing("nodes", color, Elems(nodelist), {}))
    /\ pc' = next
    /\ UNCHANGED <<err, instanceVars, costs, resultVars, nodes, graph, i, totalCost, printedTotal>>
\* line 72
DrawSuppliers == DrawNodes("suppliers", "r", suppliers, "consumers")
\* line 73
DrawConsumers == DrawNodes("consumers", "g", consumers, "cd")
\* line 74
DrawCrossDock == DrawNodes("cd", "b", <<cd>>, "loop")

\* lines 80-84: the next owner's edges are added to the total
Aggregate ==
    /\ pc = "loop"
    /\ i < Len(suppliersRoute)
    /\ LET sum == AddCosts(totalCost, suppliersRoute[i + 1].edges, costs)
       IN  /\ totalCost' = sum.total
           /\ IF sum.ok
              THEN pc' = "edges" /\ err' = err
              ELSE pc' = "failed" /\ err' = "KeyError"
    /\ UNCHANGED <<instanceVars, costs, resultVars, nodes, graph, canvas, i, printedTotal>>

\* lines 86-89: the owner's edges join the graph and edges are drawn in the
\* i-th style; colors[i] raises IndexError from the third owner on
DrawEdges ==
    /\ pc = "edges"
    /\ graph' = AddEdgesFrom(graph, suppliersRoute[i + 1].edges)
    /\ IF i < Len(styles)
       THEN /\ canvas' = Append(canvas, Drawing("edges", styles[i + 1], {},
                                EdgesDrawn(graph', suppliersRoute[i + 1].edges)))
            /\ i' = i + 1
            /\ pc' = "loop"
            /\ err' = err
       ELSE /\ pc' = "failed"
            /\ err' = "IndexError"
            /\ UNCHANGED <<canvas, i>>
    /\ UNCHANGED <<instanceVars, costs, resultVars, nodes, totalCost, printedTotal>>

\* line 91, once the loop has run out of owners
PrintTotal ==
    /\ pc = "loop"
    /\ i = Len(suppliersRoute)
    /\ printedTotal' = <<totalCost>>
    /\ pc' = "show"
    /\ UNCHANGED <<err, instanceVars, costs, resultVars, nodes, graph, canvas, i, totalCost>>

\* lines 93-97
Show ==
    /\ pc = "show"
    /\ canvas' = Append(canvas, Drawing("show", "", {}, {}))
    /\ pc' = "done"
    /\ UNCHANGED <<err, instanceVars, costs, resultVars, nodes, graph, i, totalCost, printedTotal>>

ReadAnyInstance == ReadInstance(InstanceFiles)
NextInstance == ReadAnyInstance \/ BuildCosts
SpecInstance == Init /\ [][NextInstance]_vars

InitResult == Start("readResult")
ReadAnyLine == ReadLine(ResultLines)
NextResult == ReadAnyLine \/ ReturnRoute
SpecResult == InitResult /\ [][NextResult]_vars

\* the script from its first line to its last
ReadRunInstance == ReadInstance(RunInstanceFiles)
ReadRunLine == ReadLine(RunResultLines)
Next ==
    \/ ReadRunInstance
    \/ BuildCosts
    \/ ReadRunLine
    \/ ReturnRoute
    \/ BuildGraph
    \/ DrawLabels
    \/ DrawSuppliers
    \/ DrawConsumers
    \/ DrawCrossDock
    \/ Aggregate
    \/ DrawEdges
    \/ PrintTotal
    \/ Show
Spec == Init /\ [][Next]_vars

(**************************************************************************)
(* The instance reader and the cost table: SpecInstance.                  *)
(**************************************************************************)
Returned == pc # "readInstance"
headS == nSuppliersOf(instanceFile)
headC == nConsumersOf(instanceFile)
NoRepeats(s) == Cardinality(Elems(s)) = Len(s)

\* C1: readInstance returns a position nodeId -> (x, y) for every node row
\* of the file, rows 1..N, the first node row included.
C1_EveryNodeRowPositioned ==
    Returned =>
        \A k \in 2..Len(instanceFile) :
            /\ instanceFile[k][1] \in DOMAIN positions
            /\ positions[instanceFile[k][1]] = <<instanceFile[k][2], instanceFile[k][3]>>

\* C2: suppliers are [1, headS], consumers are [headS+1, headS+headC], the cross-dock is
\* headS+headC+1; the three are pairwise disjoint and cover exactly [1, headS+headC+1].
C2_ContiguousPartition ==
    Returned =>
        /\ NoRepeats(suppliers) /\ NoRepeats(consumers)
        /\ Elems(suppliers) = 1..headS
        /\ Elems(consumers) = (headS + 1)..(headS + headC)
        /\ cd = headS + headC + 1
        /\ Elems(suppliers) \cap Elems(consumers) = {}
        /\ cd \notin Elems(suppliers) \cup Elems(consumers)
        /\ Elems(suppliers) \cup Elems(consumers) \cup {cd} = 1..(headS + headC + 1)
C2_Witness == Returned /\ Len(suppliers) = 2 /\ Len(consumers) = 2 /\ cd = 5

\* C9 as stated: with 0 suppliers or 0 consumers the range of the role whose
\* count is 0 is empty and the cross-dock id is 1 or nConsumers+1.
C9_CrossDockOneOrConsumersPlusOne ==
    (Returned /\ (headS = 0 \/ headC = 0)) =>
        /\ headS = 0 => suppliers = <<>>
        /\ headC = 0 => consumers = <<>>
        /\ cd = 1 \/ cd = headC + 1
\* C9 as amended: the range of the role whose count is 0 is empty and the
\* cross-dock id is one past the other role's count: nConsumers+1 with no
\* suppliers, nSuppliers+1 with no consumers (1 with neither).
C9_CrossDockPastTheOtherRole ==
    Returned =>
        /\ headS = 0 => (suppliers = <<>> /\ cd = headC + 1)
        /\ headC = 0 => (consumers = <<>> /\ cd = headS + 1)
C9_Witness == Returned /\ headC = 0 /\ headS = 2 /\ consumers = <<>> /\ cd = 3

\* the float of a small positive integer d (exact)
RECURSIVE Log2(_)
Log2(d) == IF d < 2 THEN 0 ELSE 1 + Log2(d \div 2)
FloatOfInt(d) == [hi |-> d * (TopBit \div 2^Log2(d)), lo |-> 0, ex |-> Log2(d)]
Abs(d) == IF d < 0 THEN -d ELSE d

\* C5: the cost table has an entry for exactly the ordered pairs of node ids
\* in positions, Cost(i, i) = 0 and Cost(i, j) = Cost(j, i); between two
\* nodes on one horizontal or vertical line the cost is their distance.
C5_CompleteZeroDiagonalSymmetric ==
    pc = "readResult" =>
        /\ DOMAIN costs = (DOMAIN positions) \X (DOMAIN positions)
        /\ \A u \in DOMAIN positions : costs[<<u, u>>] = FZero
        /\ \A u, v \in DOMAIN positions :
            /\ costs[<<u, v>>] = costs[<<v, u>>]
            /\ (positions[u][1] = positions[v][1] /\ positions[u][2] # positions[v][2])
                => costs[<<u, v>>] = FloatOfInt(Abs(positions[u][2] - positions[v][2]))
            /\ (positions[u][2] = positions[v][2] /\ positions[u][1] # positions[v][1])
                => costs[<<u, v>>] = FloatOfInt(Abs(positions[u][1] - positions[v][1]))
C5_Witness ==
    /\ pc = "readResult"
    /\ \E u, v \in DOMAIN positions :
        /\ positions[u][1] # positions[v][1] /\ positions[u][2] # positions[v][2]
        /\ costs[<<u, v>>] # FZero

(**************************************************************************)
(* The result reader: SpecResult.                                         *)
(**************************************************************************)
\* the lines of the file with more than one token, in file order
EdgeLinesOf(lines) == SelectSeq(lines, LAMBDA w : Len(w) > 1)
ThreeIntegers(w) == Len(w) = 3 /\ w[1].isInt /\ w[2].isInt /\ w[3].isInt
FirstLineOf(lines, a) == CHOOSE k \in DOMAIN lines : lines[k][1].val = a /\ \A l \in 1..(k - 1) : lines[l][1].val # a
EdgesInFileOrder(lines, a) ==
    LET mine == SelectSeq(lines, LAMBDA w : w[1].val = a)
    IN  [k \in DOMAIN mine |-> <<mine[k][2].val, mine[k][3].val>>]

\* C4: readResult skips the lines of zero or one token, and returns the
\* owners in the order of their first line in the file, each with exactly
\* its own (from, to) edges in file order.
C4_OwnersAndEdgesInFileOrder ==
    pc = "graph" =>
        LET lines == EdgeLinesOf(fileLines) IN
        /\ {suppliersRoute[k].owner : k \in DOMAIN suppliersRoute} = {lines[k][1].val : k \in DOMAIN lines}
        /\ \A k, l \in DOMAIN suppliersRoute :
            k < l => FirstLineOf(lines, suppliersRoute[k].owner) < FirstLineOf(lines, suppliersRoute[l].owner)
        /\ \A k \in DOMAIN suppliersRoute :
            suppliersRoute[k].edges = EdgesInFileOrder(lines, suppliersRoute[k].owner)
C4_Witness ==
    /\ pc = "graph"
    /\ Len(fileLines) = 3
    /\ \A k \in 1..3 : Len(fileLines[k]) = 3
    /\ fileLines[1][1].val = fileLines[3][1].val
    /\ fileLines[2][1].val # fileLines[1][1].val
    /\ Len(suppliersRoute) = 2
    /\ suppliersRoute[1].owner = fileLines[1][1].val
    /\ suppliersRoute[1].edges = <<<<fileLines[1][2].val, fileLines[1][3].val>>,
                                   <<fileLines[3][2].val, fileLines[3][3].val>>>>
    /\ suppliersRoute[2].edges = <<<<fileLines[2][2].val, fileLines[2][3].val>>>>
    /\ suppliersRoute[1].edges[1] # suppliersRoute[1].edges[2]

\* C8: readResult fails, and returns nothing, once a line of more than one
\* token is not exactly three integers (two tokens, four or more, or a
\* token that is no integer).
C8_MalformedEdgeLineFails ==
    (\E k \in DOMAIN fileLines : Len(fileLines[k]) > 1 /\ ~ThreeIntegers(fileLines[k]))
        => (pc = "failed" /\ err = "ValueError")
C8_Witness ==
    /\ pc = "failed" /\ err = "ValueError"
    /\ Len(fileLines) = 3
    /\ ThreeIntegers(fileLines[1])
    /\ Len(fileLines[2]) = 1
    /\ Len(fileLines[3]) = 2 /\ fileLines[3][1].isInt /\ fileLines[3][2].isInt
(**************************************************************************)
(* The whole script: Spec.                                                *)
(**************************************************************************)
RECURSIVE Flattened(_)
Flattened(d) == IF d = <<>> THEN <<>> ELSE Head(d).edges \o Flattened(Tail(d))
\* the float sum of Cost over a list of edges, added one by one from 0
RECURSIVE CostSum(_, _)
CostSum(total, edges) ==
    IF edges = <<>> THEN total
    ELSE CostSum(FAdd(total, costs[Head(edges)]), Tail(edges))
Orderings(s) ==
    {[k \in DOMAIN s |-> s[f[k]]] :
        f \in {g \in [DOMAIN s -> DOMAIN s] : \A x, y \in DOMAIN s : g[x] = g[y] => x = y}}
\* the routes that differ from d in the order of the owners or in the
\* order of an owner's edges
Reordered(d) ==
    {[k \in DOMAIN d |-> [owner |-> d[p[k]].owner, edges |-> q[p[k]]]] :
        p \in Orderings([k \in DOMAIN d |-> k]),
        q \in {r \in [DOMAIN d -> UNION {Orderings(d[k].edges) : k \in DOMAIN d}] :
                \A k \in DOMAIN d : r[k] \in Orderings(d[k].edges)}}

\* C3 as stated: the total the run reports is the sum of Cost over every
\* listed edge of every owner, and is the same in whatever order the owners
\* and the edges are taken.
C3_TotalInAnyOrder ==
    printedTotal # <<>> =>
        \A d \in Reordered(suppliersRoute) : CostSum(FZero, Flattened(d)) = printedTotal[1]
\* C3 as amended: when the run reaches its report, the total is the float
\* sum of Cost over the flattened edge list, every listing counted, added
\* from 0 in the order of the list (owners by first occurrence, edges in
\* file order).
C3_TotalInListOrder ==
    printedTotal # <<>> =>
        printedTotal[1] = CostSum(FZero, Flattened(suppliersRoute))
C3_Witness ==
    /\ pc = "done"
    /\ Len(suppliersRoute) = 2
    /\ Len(suppliersRoute[1].edges) = 2
    /\ suppliersRoute[1].edges[1] = suppliersRoute[1].edges[2]
    /\ costs[suppliersRoute[1].edges[1]] # FZero
    /\ costs[suppliersRoute[2].edges[1]] # FZero
    /\ costs[suppliersRoute[2].edges[1]] # costs[suppliersRoute[1].edges[1]]
    /\ printedTotal = <<CostSum(FZero, Flattened(suppliersRoute))>>

\* C6: with three or more owners the run fails with the render-capacity
\* error (the IndexError of styles[i]) before anything has been rendered.
C6_CapacityErrorBeforeRendering ==
    err = "IndexError" => canvas = <<>>

\* C7: every failure ends the run before any rendering step; no rendering
\* step precedes the end of the cost aggregation.
C7_NoRenderingBeforeFailure ==
    pc = "failed" => canvas = <<>>

\* C10: the edges drawn in the k-th style are exactly the k-th owner's
\* edges; the first owner's edges are not drawn again, dashed.
C10_EachStyleItsOwnersEdges ==
    LET drawn == SelectSeq(canvas, LAMBDA c : c.kind = "edges") IN
    \A k \in DOMAIN drawn :
        /\ drawn[k].style = styles[k]
        /\ drawn[k].edges = Elems(suppliersRoute[k].edges)
=============================================================================
